---- MODULE Spec2Model ----
(***************************************************************************)
(* The Gemini API key manager of workers-api/src/geminiKeyManager.ts:      *)
(* round-robin key selection over the non-blocked keys, per-key metrics,   *)
(* rate-limit and error-threshold blocking with lazy and periodic          *)
(* unblocking, and executeWithRetry, whose invocations interleave at the   *)
(* await of the API call and at the backoff sleep.                         *)
(*                                                                         *)
(* Keys are numbered 1..n in configured order.  Time is in milliseconds.   *)
(* JavaScript runs each synchronous stretch of code to completion, so an   *)
(* action is one stretch between two awaits.                               *)
(***************************************************************************)
EXTENDS Integers, Sequences, FiniteSets, TLC

(* ------------------------------ bounds --------------------------------- *)
\* the pool holds 1..MaxKeys keys
MaxKeys == 2
\* concurrent callers of executeWithRetry
NumCallers == 2
\* executeWithRetry invocations started in one behaviour
MaxCalls == 3
\* clock advances in one behaviour
MaxTicks == 3
\* the same three for the behaviours in which one invocation runs at a time
SeqMaxKeys == 3
SeqMaxCalls == 5
SeqMaxTicks == 4
\* the same three where the configured list names a key twice
DupMaxKeys == 3
DupMaxCalls == 2
DupMaxTicks == 3
\* the same three where a request may stay in flight for most of a block
LateMaxKeys == 3
LateMaxCalls == 2
LateMaxTicks == 5
\* keys and invocations where timers and settling requests are scheduled fairly
LiveMaxKeys == 3
LiveMaxCalls == 2
\* the characters written before and after the body of an error message
MaxMessagePad == 1
\* the same three where the cleanup task was never started
LazyMaxKeys == 2
LazyMaxCalls == 3
LazyMaxTicks == 3
\* the longest GEMINI_API_KEYS value, and the legacy variables that may be set
MaxEnvLen == 4
MaxLegacy == 2
\* the longest key of letters handed to maskKey, and the longest with '*' and '.'
MaxKeyLen == 15
MaxMarkedLen == 3
\* the greatest errorCount and the latest time (in seconds) handed to markKeyError
MaxErrorInput == 6
MaxTimeInput == 3
\* the same three where the pool is larger than maxRetries (one invocation at a time)
CapMaxKeys == 5
CapMaxCalls == 2
CapMaxTicks == 3
\* the same three where two callers race over a pool of maxRetries keys
RaceMaxKeys == 3
RaceMaxCalls == 2
RaceMaxTicks == 3

(* -------------------------- program constants -------------------------- *)
maxRetries == 3
blockDurationMs == 60000
maxErrorsBeforeBlock == 5
CleanupIntervalMs == 30000
BackoffBaseMs == 1000
BackoffCapMs == 5000
\* blockUntil?: Date is absent
Undefined == -1
\* getLastUsedKey's null
NoKey == 0
\* new Date(0)
Epoch == 0

VARIABLES
    keys,           \* this.keys: the configured keys, in order
    keyMetrics,     \* this.keyMetrics: key -> KeyMetrics
    currentIndex,   \* this.currentIndex
    now,            \* Date.now()
    ticks,          \* clock advances so far
    nextCleanup,    \* when the setInterval callback is next due
    inv,            \* caller -> the locals of its executeWithRetry invocation
    outcome,        \* how the invocation that ended last ended
    calls,          \* invocations started so far
    budget,         \* what a behaviour may use: [callers, calls, ticks]
    hist,           \* observations of the calls made so far (history only)
    probe           \* a method applied to an input on its own: [kind, input, done, ...]

vars == <<keys, keyMetrics, currentIndex, now, ticks, nextCleanup, inv, outcome, calls, budget, hist, probe>>

Callers == 1..NumCallers
KeySet == {keys[i] : i \in 1..Len(keys)}
Min(a, b) == IF a < b THEN a ELSE b
Range(s) == {s[i] : i \in 1..Len(s)}

(* ------------------------------ messages ------------------------------- *)
\* Error messages are sequences of characters.
PoolExhaustedMessage == <<"A", "l", "l", " ", "G", "e", "m", "i", "n", "i", " ", "A", "P", "I", " ", "k", "e", "y", "s", " ", "a", "r", "e", " ", "c", "u", "r", "r", "e", "n", "t", "l", "y", " ", "r", "a", "t", "e", "-", "l", "i", "m", "i", "t", "e", "d", " ", "o", "r", " ", "b", "l", "o", "c", "k", "e", "d", ".", " ", "P", "l", "e", "a", "s", "e", " ", "t", "r", "y", " ", "a", "g", "a", "i", "n", " ", "l", "a", "t", "e", "r", ".">>
AllExhaustedMessage == <<"A", "l", "l", " ", "G", "e", "m", "i", "n", "i", " ", "A", "P", "I", " ", "k", "e", "y", "s", " ", "e", "x", "h", "a", "u", "s", "t", "e", "d">>
UnknownErrorMessage == <<"U", "n", "k", "n", "o", "w", "n", " ", "e", "r", "r", "o", "r">>
\* what the API call may reject with
TooManyRequests == <<"4", "2", "9", " ", "T", "o", "o", " ", "M", "a", "n", "y", " ", "R", "e", "q", "u", "e", "s", "t", "s">>
ServerError == <<"B", "a", "d", " ", "g", "a", "t", "e", "w", "a", "y">>
RateLimitErrors == {TooManyRequests}
GenericErrors == {ServerError}
WorkErrors == RateLimitErrors \cup GenericErrors
\* let lastError: Error | null = null
NoError == <<>>

UpperToLower == {<<"A", "a">>, <<"B", "b">>, <<"C", "c">>, <<"D", "d">>, <<"E", "e">>, <<"F", "f">>, <<"G", "g">>, <<"H", "h">>, <<"I", "i">>, <<"J", "j">>, <<"K", "k">>, <<"L", "l">>, <<"M", "m">>, <<"N", "n">>, <<"O", "o">>, <<"P", "p">>, <<"Q", "q">>, <<"R", "r">>, <<"S", "s">>, <<"T", "t">>, <<"U", "u">>, <<"V", "v">>, <<"W", "w">>, <<"X", "x">>, <<"Y", "y">>, <<"Z", "z">>}
LowerChar(c) == IF \E pr \in UpperToLower : pr[1] = c THEN (CHOOSE pr \in UpperToLower : pr[1] = c)[2] ELSE c
toLowerCase(s) == [i \in 1..Len(s) |-> LowerChar(s[i])]
includes(s, sub) == \E i \in 1..(Len(s) - Len(sub) + 1) : SubSeq(s, i, i + Len(sub) - 1) = sub

isRateLimitError(message) ==
    LET errorMessage == toLowerCase(message)
    IN  \/ includes(errorMessage, <<"4", "2", "9">>)
        \/ includes(errorMessage, <<"r", "a", "t", "e", " ", "l", "i", "m", "i", "t">>)
        \/ includes(errorMessage, <<"q", "u", "o", "t", "a">>)
        \/ includes(errorMessage, <<"t", "o", "o", " ", "m", "a", "n", "y", " ", "r", "e", "q", "u", "e", "s", "t", "s">>)

\* isRateLimitError of index.ts: 'quota exceeded' where the service has 'quota'
IndexIsRateLimitError(message) ==
    LET lowered == toLowerCase(message)
    IN  \/ includes(lowered, <<"4", "2", "9">>)
        \/ includes(lowered, <<"r", "a", "t", "e", " ", "l", "i", "m", "i", "t">>)
        \/ includes(lowered, <<"q", "u", "o", "t", "a", " ", "e", "x", "c", "e", "e", "d", "e", "d">>)
        \/ includes(lowered, <<"t", "o", "o", " ", "m", "a", "n", "y", " ", "r", "e", "q", "u", "e", "s", "t", "s">>)

(* ----------------------------- the pool -------------------------------- *)
\* The manager's fields as one value m = [keyMetrics, currentIndex, h], passed
\* through the methods in the order the code calls them; h carries the history.

\* initializeKeys: one zeroed KeyMetrics per key
InitialMetrics == [usageCount |-> 0, lastUsed |-> Epoch, isBlocked |-> FALSE,
                   blockUntil |-> Undefined, errorCount |-> 0]

\* mutant: the comparison with blockUntil the wrong way round
IsBlockedAt_Reversed(metrics, t) ==
    metrics.isBlocked /\ metrics.blockUntil # Undefined /\ t > metrics.blockUntil

\* getAvailableKeys, first test: the key is temporarily blocked
IsBlockedAt(metrics, t) ==
    metrics.isBlocked /\ metrics.blockUntil # Undefined /\ t < metrics.blockUntil

\* getAvailableKeys, second test (and the cleanup task's): the block period expired
IsExpiredAt(metrics, t) ==
    metrics.isBlocked /\ metrics.blockUntil # Undefined /\ t >= metrics.blockUntil

\* mutant: the flag cleared, the date left
Unblock_KeepsDate(metrics) ==
    [metrics EXCEPT !.isBlocked = FALSE, !.errorCount = 0]

\* what both unblocking paths assign
Unblock(metrics) ==
    [metrics EXCEPT !.isBlocked = FALSE, !.blockUntil = Undefined, !.errorCount = 0]

\* history: a getAvailableKeys call at time t returned avail and left metrics km
ObserveAvailable(h, km, avail, expired, t) ==
    [h EXCEPT
        !.q = [k \in DOMAIN @ |->
                 IF @[k].phase # "quarantined" THEN @[k]
                 ELSE IF t < @[k].at + 60000
                      THEN IF k \in Range(avail)
                           THEN [@[k] EXCEPT !.phase = "leaked"]
                           ELSE [@[k] EXCEPT !.early = TRUE]
                      ELSE IF /\ k \in Range(avail)
                              /\ ~km[k].isBlocked
                              /\ km[k].errorCount = 0
                              /\ km[k].blockUntil = Undefined
                           THEN [@[k] EXCEPT !.phase = "released"]
                           ELSE [@[k] EXCEPT !.phase = "stuck"]],
        !.rr = IF expired = {} THEN @ ELSE [k \in DOMAIN @ |-> 0],
        !.streak = [k \in DOMAIN @ |-> IF k \in expired THEN 0 ELSE @[k]]]

getAvailableKeys(m, t) ==
    LET km == m.keyMetrics
        avail == SelectSeq(keys, LAMBDA key : ~IsBlockedAt(km[key], t))
        expired == {key \in KeySet : IsExpiredAt(km[key], t)}
        km1 == [key \in DOMAIN km |-> IF key \in expired THEN Unblock(km[key]) ELSE km[key]]
    IN  [m   |-> [m EXCEPT !.keyMetrics = km1,
                           !.h = ObserveAvailable(m.h, km1, avail, expired, t)],
         ret |-> avail]

\* mutant: the index taken after the increment
SelectedPosition_OffByOne(index, length) == ((index + 1) % length) + 1

\* availableKeys[this.currentIndex % availableKeys.length], 1-based here
SelectedPosition(index, length) == (index % length) + 1

\* mutant: the increment forgotten
AdvancedIndex_Stuck(index, length) == index % length

\* this.currentIndex = (this.currentIndex + 1) % availableKeys.length
AdvancedIndex(index, length) == (index + 1) % length

\* history: getNextKey returned key at time t; km0 are the metrics as the call began
ObserveSelection(h, km0, avail, key, t) ==
    [h EXCEPT
        !.sel = [key        |-> key,
                 wasBlocked |-> km0[key].isBlocked /\ km0[key].blockUntil > t,
                 inAvail    |-> key \in Range(avail),
                 skipped    |-> \E k \in DOMAIN km0 : km0[k].isBlocked /\ km0[k].blockUntil > t],
        !.nSel = @ + 1,
        !.rr[key] = @ + 1]

\* history: the position getNextKey took from a list of that length, and the
\* cursor it left
ObserveStep(h, position, length, cursor) ==
    [h EXCEPT !.step = [position |-> position, length |-> length, cursor |-> cursor]]

\* mutant: the usage count written back from a stale read
Used_LostUpdate(metrics, t) == [metrics EXCEPT !.lastUsed = t]

\* metrics.usageCount++; metrics.lastUsed = new Date()
Used(metrics, t) == [metrics EXCEPT !.usageCount = @ + 1, !.lastUsed = t]

getNextKey(m, t) ==
    LET a == getAvailableKeys(m, t)
        availableKeys == a.ret
    IN  IF Len(availableKeys) = 0
        THEN [m |-> a.m, thrown |-> TRUE, ret |-> NoKey]
        ELSE LET position == SelectedPosition(a.m.currentIndex, Len(availableKeys))
                 selectedKey == availableKeys[position]
                 index == AdvancedIndex(a.m.currentIndex, Len(availableKeys))
             IN  [m |-> [a.m EXCEPT
                           !.currentIndex = index,
                           !.keyMetrics[selectedKey] = Used(@, t),
                           !.h = ObserveStep(
                                   ObserveSelection(a.m.h, m.keyMetrics, availableKeys, selectedKey, t),
                                   position, Len(availableKeys), index)],
                  thrown |-> FALSE,
                  ret |-> selectedKey]

\* mutant: the block duration not added
RateLimited_NoDuration(metrics, t) ==
    [metrics EXCEPT !.isBlocked = TRUE, !.blockUntil = t, !.errorCount = @ + 1]

\* markKeyAsRateLimited's assignments
RateLimited(metrics, t) ==
    [metrics EXCEPT !.isBlocked = TRUE, !.blockUntil = t + blockDurationMs, !.errorCount = @ + 1]

markKeyAsRateLimited(m, apiKey, t) ==
    [m EXCEPT
        !.keyMetrics[apiKey] = RateLimited(@, t),
        !.h = [@ EXCEPT !.everFailed = TRUE,
                        !.rr = [k \in DOMAIN @ |-> 0],
                        !.streak[apiKey] = -1,
                        !.rlAt = t,
                        !.q[apiKey] = [at |-> t, early |-> FALSE, phase |-> "quarantined"]]]

\* mutant: > for >= in the threshold test
Errored_StrictThreshold(metrics, t) ==
    LET count == metrics.errorCount + 1
    IN  IF count > maxErrorsBeforeBlock
        THEN [metrics EXCEPT !.errorCount = count, !.isBlocked = TRUE,
                             !.blockUntil = t + blockDurationMs * 2]
        ELSE [metrics EXCEPT !.errorCount = count]

\* markKeyError's assignments
Errored(metrics, t) ==
    LET count == metrics.errorCount + 1
    IN  IF count >= maxErrorsBeforeBlock
        THEN [metrics EXCEPT !.errorCount = count, !.isBlocked = TRUE,
                             !.blockUntil = t + blockDurationMs * 2]
        ELSE [metrics EXCEPT !.errorCount = count]

\* markKeyError's assignments in the class of index.ts
IndexErrored(metrics, t) ==
    LET count == metrics.errorCount + 1
    IN  IF count >= maxErrorsBeforeBlock
        THEN [metrics EXCEPT !.errorCount = count, !.isBlocked = TRUE,
                             !.blockUntil = t + blockDurationMs]
        ELSE [metrics EXCEPT !.errorCount = count]

markKeyError(m, apiKey, t) ==
    [m EXCEPT
        !.keyMetrics[apiKey] = Errored(@, t),
        !.h = [@ EXCEPT !.everFailed = TRUE,
                        !.rr = [k \in DOMAIN @ |-> 0],
                        !.streak[apiKey] = IF @ >= 0 THEN @ + 1 ELSE @,
                        !.q[apiKey] = [at |-> Undefined, early |-> FALSE, phase |-> "none"]]]

\* mutant: a success also lifts the block
Succeeded_Unblocks(metrics) ==
    [metrics EXCEPT !.errorCount = 0, !.isBlocked = FALSE, !.blockUntil = Undefined]

\* markKeySuccess's assignment
Succeeded(metrics) == [metrics EXCEPT !.errorCount = 0]

markKeySuccess(m, apiKey) ==
    LET before == m.keyMetrics[apiKey]
        after == Succeeded(before)
    IN  [m EXCEPT
            !.keyMetrics[apiKey] = after,
            !.h = [@ EXCEPT !.streak[apiKey] = IF after.isBlocked THEN -1 ELSE 0,
                            !.succ = [key |-> apiKey,
                                      errorBefore |-> before.errorCount,
                                      errorAfter |-> after.errorCount,
                                      blockedBefore |-> before.isBlocked,
                                      blockedAfter |-> after.isBlocked,
                                      untilBefore |-> before.blockUntil,
                                      untilAfter |-> after.blockUntil]]]

\* getLastUsedKey: the forEach over the map, in insertion order
RECURSIVE LastUsedScan(_, _, _, _)
LastUsedScan(km, i, latestTime, lastUsedKey) ==
    IF i > Len(keys) THEN lastUsedKey
    ELSE IF km[keys[i]].lastUsed > latestTime
         THEN LastUsedScan(km, i + 1, km[keys[i]].lastUsed, keys[i])
         ELSE LastUsedScan(km, i + 1, latestTime, lastUsedKey)

getLastUsedKey(km) == LastUsedScan(km, 1, Epoch, NoKey)

(* -------------------------- executeWithRetry --------------------------- *)
\* The locals of one invocation.  pc is where it stands: "idle" (not running),
\* "work" (awaiting apiCall(apiKey)), "sleep" (awaiting the backoff sleep).
\* log is history: what the invocation saw and did.
NoLog == [entryAvail |-> 0, entryBlocked |-> FALSE, entryQuarantined |-> FALSE, untouched |-> TRUE,
          tried |-> <<>>, generic |-> <<>>, works |-> 0, sleeps |-> 0, entryErrors |-> <<>>,
          triedError |-> 0, resultError |-> 0, finalAvail |-> Undefined,
          poolThrew |-> FALSE,
          waited |-> 0,
          selUsage |-> 0, selUnblocked |-> FALSE, selOthers |-> 0, selLive |-> 0]

IdleLocals == [pc |-> "idle", attempt |-> 0, maxAttempts |-> 0, apiKey |-> NoKey,
               attemptsCount |-> 0, lastError |-> NoError, wakeAt |-> Undefined,
               log |-> NoLog]

\* status 0: no invocation has ended yet
NoOutcome == [status |-> 0, code |-> "", result |-> NoKey, attempts |-> 0,
              message |-> NoError, log |-> NoLog]

RECURSIVE Pow2(_)
Pow2(n) == IF n <= 0 THEN 1 ELSE 2 * Pow2(n - 1)

\* mutant: the same delay after every attempt
waitTime_Flat(attempt) == BackoffBaseMs

\* Math.min(1000 * Math.pow(2, attempt - 1), 5000)
waitTime(attempt) == Min(BackoffBaseMs * Pow2(attempt - 1), BackoffCapMs)

\* operation: string = 'API call'
DefaultOperation == <<"A", "P", "I", " ", "c", "a", "l", "l">>

Digits == <<"0", "1", "2", "3", "4", "5", "6", "7", "8", "9">>

\* a number in a template literal
RECURSIVE NumberToString(_)
NumberToString(n) == IF n < 10 THEN <<Digits[n + 1]>>
               ELSE NumberToString(n \div 10) \o <<Digits[(n % 10) + 1]>>

\* `${operation} failed after ${attemptsCount} attempts: ${lastError?.message || 'Unknown error'}`
FailureMessage(operation, attemptsCount, lastError) ==
    operation
        \o <<" ", "f", "a", "i", "l", "e", "d", " ", "a", "f", "t", "e", "r", " ">>
        \o NumberToString(attemptsCount)
        \o <<" ", "a", "t", "t", "e", "m", "p", "t", "s", ":", " ">>
        \o (IF lastError = NoError THEN UnknownErrorMessage ELSE lastError)

\* mutant: the exhaustion check after the loop left out
AllFailed_NoExhaustionCheck(m, loc, t) ==
    LET a == getAvailableKeys(m, t)
    IN  [m   |-> a.m,
         loc |-> IdleLocals,
         out |-> [status |-> 500, code |-> "API_CALL_FAILED", result |-> NoKey,
                  attempts |-> loc.attemptsCount,
                  message |-> FailureMessage(DefaultOperation, loc.attemptsCount, loc.lastError),
                  log |-> [loc.log EXCEPT !.finalAvail = Len(a.ret)]]]

\* the code after the loop: all attempts failed
AllFailed(m, loc, t) ==
    LET a == getAvailableKeys(m, t)
    IN  [m   |-> a.m,
         loc |-> IdleLocals,
         out |-> IF Len(a.ret) = 0
                 THEN [status |-> 429, code |-> "ALL_KEYS_EXHAUSTED", result |-> NoKey,
                       attempts |-> 0, message |-> AllExhaustedMessage,
                       log |-> [loc.log EXCEPT !.finalAvail = 0]]
                 ELSE [status |-> 500, code |-> "API_CALL_FAILED", result |-> NoKey,
                       attempts |-> loc.attemptsCount,
                       message |-> FailureMessage(DefaultOperation, loc.attemptsCount, loc.lastError),
                       log |-> [loc.log EXCEPT !.finalAvail = Len(a.ret)]]]

\* the key the catch block records the failure on
FailedKey(km) == getLastUsedKey(km)

\* mutant: no catch, the error leaves executeWithRetry as it came
Catch_Rethrows(m, loc, message, given, t) ==
    [m   |-> m,
     loc |-> IdleLocals,
     out |-> [status |-> Undefined, code |-> "", result |-> NoKey,
              attempts |-> loc.attemptsCount, message |-> message, log |-> loc.log]]

\* mutant: the loop never sees its last attempt
LastAttempt_Never(loc) == FALSE

\* if (attempt === maxAttempts) break
LastAttempt(loc) == loc.attempt = loc.maxAttempts

\* the catch block, entered with the error's message; given is the key the
\* failed apiCall was invoked with (NoKey when getNextKey itself threw)
Catch(m, loc, message, given, t) ==
    LET failedKey == FailedKey(m.keyMetrics)
        m1 == IF failedKey = NoKey THEN m
              ELSE IF isRateLimitError(message) THEN markKeyAsRateLimited(m, failedKey, t)
              ELSE markKeyError(m, failedKey, t)
        m2 == [m1 EXCEPT !.h.fail =
                  [given |-> given, marked |-> failedKey,
                   changed |-> Cardinality({k \in DOMAIN m.keyMetrics :
                                  m1.keyMetrics[k].errorCount # m.keyMetrics[k].errorCount}),
                   by |-> IF failedKey = NoKey THEN 0
                          ELSE m1.keyMetrics[failedKey].errorCount - m.keyMetrics[failedKey].errorCount]]
        loc1 == [loc EXCEPT !.attemptsCount = @ + 1, !.lastError = message]
    IN  IF LastAttempt(loc1)
        THEN AllFailed(m2, loc1, t)
        ELSE [m   |-> m2,
              loc |-> [loc1 EXCEPT !.pc = "sleep", !.apiKey = NoKey,
                                   !.wakeAt = t + waitTime(loc1.attempt),
                                   !.log.sleeps = @ + 1,
                                   !.log.waited = @ + waitTime(loc1.attempt)],
              out |-> NoOutcome]

\* the try block up to the await of apiCall(apiKey)
Try(m, loc, t) ==
    LET g == getNextKey(m, t)
    IN  IF g.thrown
        THEN Catch(g.m, [loc EXCEPT !.log.poolThrew = TRUE], PoolExhaustedMessage, NoKey, t)
        ELSE [m   |-> g.m,
              loc |-> [loc EXCEPT !.pc = "work", !.apiKey = g.ret, !.wakeAt = Undefined,
                                  !.log.works = @ + 1,
                                  !.log.selUsage = g.m.keyMetrics[g.ret].usageCount
                                                      - m.keyMetrics[g.ret].usageCount,
                                  !.log.selUnblocked = m.keyMetrics[g.ret].isBlocked
                                                          /\ ~g.m.keyMetrics[g.ret].isBlocked,
                                  !.log.selOthers = Cardinality({k \in DOMAIN m.keyMetrics \ {g.ret} :
                                                      g.m.keyMetrics[k] # m.keyMetrics[k]}),
                                  !.log.selLive = Cardinality({k \in DOMAIN m.keyMetrics \ {g.ret} :
                                                      /\ g.m.keyMetrics[k] # m.keyMetrics[k]
                                                      /\ ~(/\ IsExpiredAt(m.keyMetrics[k], t)
                                                           /\ g.m.keyMetrics[k] = Unblock(m.keyMetrics[k]))})],
              out |-> NoOutcome]

\* mutant: one attempt per available key, maxRetries ignored
MaxAttempts_PoolSize(available) == available

\* const maxAttempts = Math.min(this.maxRetries, this.getAvailableKeys().length)
MaxAttempts(available) == Min(maxRetries, available)

\* executeWithRetry from its entry to its first await (or to its throw)
Enter(m, t) ==
    LET a == getAvailableKeys(m, t)
        maxAttempts == MaxAttempts(Len(a.ret))
        loc == [IdleLocals EXCEPT
                  !.maxAttempts = maxAttempts,
                  !.attempt = 1,
                  !.log.entryAvail = Len(a.ret),
                  !.log.entryBlocked = \A k \in KeySet :
                        m.keyMetrics[k].isBlocked /\ m.keyMetrics[k].blockUntil > t,
                  !.log.entryQuarantined = m.h.rlAt # Undefined /\ t < m.h.rlAt + 60000,
                  !.log.entryErrors = [k \in KeySet |-> a.m.keyMetrics[k].errorCount]]
    IN  IF 1 <= maxAttempts
        THEN Try(a.m, loc, t)
        ELSE LET r == AllFailed(a.m, loc, t)
             IN  [r EXCEPT !.out.log.untouched =
                      /\ r.m.keyMetrics = m.keyMetrics
                      /\ r.m.currentIndex = m.currentIndex]

\* apiCall(apiKey) resolved: markKeySuccess and return the result
Resolved(m, loc) ==
    LET m1 == markKeySuccess(m, loc.apiKey)
        first == IF loc.log.tried = <<>> THEN NoKey ELSE loc.log.tried[1]
    IN  [m   |-> m1,
         loc |-> IdleLocals,
         out |-> [status |-> 200, code |-> "OK", result |-> loc.apiKey,
                  attempts |-> loc.attemptsCount, message |-> NoError,
                  log |-> [loc.log EXCEPT
                             !.triedError = IF first = NoKey THEN 0
                                            ELSE m1.keyMetrics[first].errorCount,
                             !.resultError = m1.keyMetrics[loc.apiKey].errorCount]]]

(* ------------------------- initializeKeys ------------------------------ *)
\* An environment variable: set to a string (a sequence of characters) or absent.
Absent == [set |-> FALSE, value |-> <<>>]
Var(value) == [set |-> TRUE, value |-> value]
\* JavaScript truthiness of an environment variable: set and not ''
Truthy(v) == v.set /\ v.value # <<>>

Whitespace == {" ", "\t", "\n", "\r"}

\* String.prototype.trim
RECURSIVE trim(_)
trim(s) ==
    IF s = <<>> THEN s
    ELSE IF Head(s) \in Whitespace THEN trim(Tail(s))
    ELSE IF s[Len(s)] \in Whitespace THEN trim(SubSeq(s, 1, Len(s) - 1))
    ELSE s

\* String.prototype.split(',')
RECURSIVE split(_)
split(s) ==
    IF \A i \in 1..Len(s) : s[i] # ","
    THEN <<s>>
    ELSE LET i == CHOOSE j \in 1..Len(s) : s[j] = "," /\ \A l \in 1..(j - 1) : s[l] # ","
         IN  <<SubSeq(s, 1, i - 1)>> \o split(SubSeq(s, i + 1, Len(s)))

\* keysFromEnv.split(',').map(key => key.trim()).filter(key => key.length > 0)
ParsedKeys(value) ==
    LET parts == split(value)
        trimmed == [i \in 1..Len(parts) |-> trim(parts[i])]
    IN  SelectSeq(trimmed, LAMBDA key : Len(key) > 0)

\* the legacy variables GEMINI_API_KEY, GEMINI_API_KEY1 .. GEMINI_API_KEY12
LegacySlots == 13

\* what a constructor leaves: it threw, or this.keys and this.keyMetrics
Built(keyList) ==
    IF Len(keyList) = 0
    THEN [thrown |-> TRUE, keys |-> <<>>, keyMetrics |-> <<>>]
    ELSE [thrown |-> FALSE, keys |-> keyList,
          keyMetrics |-> [key \in Range(keyList) |-> InitialMetrics]]

\* initializeKeys of geminiKeyManager.ts
initializeKeys(env) ==
    IF ~Truthy(env.GEMINI_API_KEYS)
    THEN LET legacy == SelectSeq([i \in 1..LegacySlots |-> env.GEMINI_API_KEY[i]], Truthy)
         IN  Built([i \in 1..Len(legacy) |-> legacy[i].value])
    ELSE Built(ParsedKeys(env.GEMINI_API_KEYS.value))

\* the hardcoded keys of index.ts: 13 distinct strings with a common prefix,
\* written here as the prefix and the key's position in the list
FallbackKeys ==
    [i \in 1..13 |-> <<"A", "I", "z", "a", "S", "y">> \o NumberToString(i)]

\* initializeKeys of the class in index.ts
IndexInitializeKeys(env) ==
    IF Truthy(env.GEMINI_API_KEYS)
    THEN Built(ParsedKeys(env.GEMINI_API_KEYS.value))
    ELSE Built(FallbackKeys)

(* ------------------------------ getStatus ------------------------------ *)
\* The keys are numbered; key number k is this string of 14 characters.
KeyText(k) == <<"A", "I", "z", "a", "S", "y", "-", "k", "e", "y", "-", "0", "0">> \o NumberToString(k % 10)

\* mutant: the whole key when it is short
maskKey_ShortShown(key) ==
    IF Len(key) <= 12 THEN key
    ELSE SubSeq(key, 1, 8) \o <<".", ".", ".">> \o SubSeq(key, Len(key) - 3, Len(key))

\* maskKey of geminiKeyManager.ts
maskKey(key) ==
    IF Len(key) <= 12 THEN <<"*", "*", "*">>
    ELSE SubSeq(key, 1, 8) \o <<".", ".", ".">> \o SubSeq(key, Len(key) - 3, Len(key))

\* maskKey of the class in index.ts
IndexMaskKey(key) ==
    IF Len(key) <= 8 THEN <<"*", "*", "*">>
    ELSE SubSeq(key, 1, 4) \o <<"*", "*", "*">> \o SubSeq(key, Len(key) - 3, Len(key))

\* a number written with at least w digits
RECURSIVE Padded(_, _)
Padded(n, w) == IF w <= 1 THEN NumberToString(n)
                ELSE Padded(n \div 10, w - 1) \o <<Digits[(n % 10) + 1]>>

\* Date.prototype.toISOString, for the times of 1 January 1970
toISOString(t) ==
    <<"1", "9", "7", "0", "-", "0", "1", "-", "0", "1", "T">>
        \o Padded(t \div 3600000, 2) \o <<":">>
        \o Padded((t \div 60000) % 60, 2) \o <<":">>
        \o Padded((t \div 1000) % 60, 2) \o <<".">>
        \o Padded(t % 1000, 3) \o <<"Z">>

\* the entries of the keyMetrics map, in insertion order: the keys in the
\* order of their first occurrence in the list
RECURSIVE MapOrder(_)
MapOrder(list) ==
    IF list = <<>> THEN <<>>
    ELSE LET front == SubSeq(list, 1, Len(list) - 1)
             last == list[Len(list)]
         IN  IF last \in Range(front) THEN MapOrder(front)
             ELSE Append(MapOrder(front), last)

\* getStatus: the counts and one keyStats entry per entry of the map
getStatus(m, t) ==
    LET a == getAvailableKeys(m, t)
        entries == MapOrder(keys)
    IN  [m   |-> a.m,
         ret |-> [totalKeys |-> Len(keys),
                  availableKeys |-> Len(a.ret),
                  blockedKeys |-> Len(keys) - Len(a.ret),
                  keyStats |-> [i \in 1..Len(entries) |->
                      [key |-> maskKey(KeyText(entries[i])),
                       usageCount |-> a.m.keyMetrics[entries[i]].usageCount,
                       lastUsed |-> toISOString(a.m.keyMetrics[entries[i]].lastUsed),
                       isBlocked |-> a.m.keyMetrics[entries[i]].isBlocked,
                       errorCount |-> a.m.keyMetrics[entries[i]].errorCount]]]]

(* ------------------------------ the system ----------------------------- *)
Manager == [keyMetrics |-> keyMetrics, currentIndex |-> currentIndex, h |-> hist]

Apply(p, r) ==
    /\ keyMetrics' = r.m.keyMetrics
    /\ currentIndex' = r.m.currentIndex
    /\ hist' = r.m.h
    /\ inv' = [inv EXCEPT ![p] = r.loc]
    /\ outcome' = IF r.out.status = 0 THEN outcome ELSE r.out

InitialHistory(n) ==
    [sel |-> [key |-> NoKey, wasBlocked |-> FALSE, inAvail |-> TRUE, skipped |-> FALSE],
     nSel |-> 0,
     everFailed |-> FALSE,
     rlAt |-> Undefined,
     rr |-> [k \in 1..n |-> 0],
     fail |-> [given |-> NoKey, marked |-> NoKey, changed |-> 0, by |-> 0],
     step |-> [position |-> 0, length |-> 0, cursor |-> 0],
     q |-> [k \in 1..n |-> [at |-> Undefined, early |-> FALSE, phase |-> "none"]],
     streak |-> [k \in 1..n |-> 0],
     succ |-> [key |-> NoKey, errorBefore |-> 0, errorAfter |-> 0,
               blockedBefore |-> FALSE, blockedAfter |-> FALSE,
               untilBefore |-> Undefined, untilAfter |-> Undefined]]

\* no method is applied on its own
NoProbe == [kind |-> "none"]

\* the constructor: initializeKeys over the configured list, then startCleanupTask
ConstructedFrom(list) ==
        /\ keys = list
        /\ keyMetrics = [k \in Range(list) |-> InitialMetrics]
        /\ currentIndex = 0
        /\ now = 1000
        /\ ticks = 0
        /\ nextCleanup = 1000 + CleanupIntervalMs
        /\ inv = [p \in Callers |-> IdleLocals]
        /\ outcome = NoOutcome
        /\ calls = 0
        /\ hist = InitialHistory(Cardinality(Range(list)))
        /\ probe = NoProbe

\* n distinct keys
Constructed(n) == ConstructedFrom([i \in 1..n |-> i])

\* callers run concurrently
Init ==
    /\ \E n \in 1..MaxKeys : Constructed(n)
    /\ budget = [callers |-> NumCallers, calls |-> MaxCalls, ticks |-> MaxTicks]

\* one caller: an invocation starts when the one before it has ended
InitSeq ==
    /\ \E n \in 1..SeqMaxKeys : Constructed(n)
    /\ budget = [callers |-> 1, calls |-> SeqMaxCalls, ticks |-> SeqMaxTicks]

\* one caller, pools of up to CapMaxKeys keys
InitCap ==
    /\ \E n \in 1..CapMaxKeys : Constructed(n)
    /\ budget = [callers |-> 1, calls |-> CapMaxCalls, ticks |-> CapMaxTicks]

\* callers run concurrently over pools of up to RaceMaxKeys keys
InitRace ==
    /\ \E n \in 1..RaceMaxKeys : Constructed(n)
    /\ budget = [callers |-> NumCallers, calls |-> RaceMaxCalls, ticks |-> RaceMaxTicks]

\* a request handler calls executeWithRetry; the callers are interchangeable,
\* so the invocation takes the first caller that is idle
Start(p) ==
    /\ p <= budget.callers
    /\ inv[p].pc = "idle"
    /\ \A c \in Callers : c < p => inv[c].pc # "idle"
    /\ calls < budget.calls
    /\ calls' = calls + 1
    /\ Apply(p, Enter(Manager, now))
    /\ UNCHANGED <<keys, now, ticks, nextCleanup, budget, probe>>

\* the awaited apiCall(apiKey) resolves
WorkSucceeds(p) ==
    /\ inv[p].pc = "work"
    /\ Apply(p, Resolved(Manager, inv[p]))
    /\ UNCHANGED <<keys, now, ticks, nextCleanup, calls, budget, probe>>

\* the awaited apiCall(apiKey) rejects with an error
WorkFails(p) ==
    /\ inv[p].pc = "work"
    /\ \E message \in WorkErrors :
          Apply(p, Catch(Manager,
                         [inv[p] EXCEPT !.log.tried = Append(@, inv[p].apiKey),
                                        !.log.generic = Append(@, message \in GenericErrors)],
                         message, inv[p].apiKey, now))
    /\ UNCHANGED <<keys, now, ticks, nextCleanup, calls, budget, probe>>

\* the backoff sleep is over: the loop's next iteration
Wake(p) ==
    /\ inv[p].pc = "sleep"
    /\ now >= inv[p].wakeAt
    /\ Apply(p, Try(Manager, [inv[p] EXCEPT !.attempt = @ + 1], now))
    /\ UNCHANGED <<keys, now, ticks, nextCleanup, calls, budget, probe>>

\* the status endpoint calls getStatus and sends what it returns
GetStatus ==
    /\ LET s == getStatus(Manager, now)
       IN  /\ keyMetrics' = s.m.keyMetrics
           /\ hist' = s.m.h
    /\ UNCHANGED <<keys, currentIndex, now, ticks, nextCleanup, inv, outcome, calls, budget, probe>>

\* the setInterval callback of startCleanupTask
Cleanup ==
    /\ nextCleanup # Undefined
    /\ now >= nextCleanup
    /\ LET expired == {k \in KeySet : IsExpiredAt(keyMetrics[k], now)}
       IN  /\ keyMetrics' = [k \in DOMAIN keyMetrics |->
                               IF k \in expired THEN Unblock(keyMetrics[k]) ELSE keyMetrics[k]]
           /\ hist' = [hist EXCEPT
                         !.rr = IF expired = {} THEN @ ELSE [k \in DOMAIN @ |-> 0],
                         !.streak = [k \in DOMAIN @ |-> IF k \in expired THEN 0 ELSE @[k]]]
    /\ nextCleanup' = nextCleanup + CleanupIntervalMs
    /\ UNCHANGED <<keys, currentIndex, now, ticks, inv, outcome, calls, budget, probe>>

\* Timers that are armed: the sleeping invocations' and the cleanup task's.
Timers ==
    {inv[p].wakeAt : p \in {c \in Callers : inv[c].pc = "sleep"}}
        \cup (IF nextCleanup = Undefined THEN {} ELSE {nextCleanup})

\* Time passes.  A timer that is due fires before the clock moves on, and the
\* clock does not jump over a timer: it moves by a second, to the next timer,
\* or to the end of a key's block.
Tick ==
    /\ ticks < budget.ticks
    /\ \A d \in Timers : d > now
    /\ \E t \in {now + 1000} \cup Timers
                 \cup {keyMetrics[k].blockUntil : k \in {c \in KeySet : keyMetrics[c].isBlocked}} :
          /\ t > now
          /\ \A d \in Timers : t <= d
          /\ now' = t
    /\ ticks' = ticks + 1
    /\ UNCHANGED <<keys, keyMetrics, currentIndex, nextCleanup, inv, outcome, calls, budget, probe, hist>>

Next ==
    \/ \E p \in Callers : Start(p)
    \/ \E p \in Callers : WorkSucceeds(p)
    \/ \E p \in Callers : WorkFails(p)
    \/ \E p \in Callers : Wake(p)
    \/ GetStatus
    \/ Cleanup
    \/ Tick

Spec == Init /\ [][Next]_vars

SpecSeq == InitSeq /\ [][Next]_vars

SpecCap == InitCap /\ [][Next]_vars

SpecRace == InitRace /\ [][Next]_vars

\* lists of up to DupMaxKeys keys in which a key occurs twice (the keys
\* numbered by first occurrence)
DuplicateLists ==
    {list \in UNION {[1..n -> 1..n] : n \in 2..DupMaxKeys} :
        /\ Cardinality(Range(list)) < Len(list)
        /\ \A i \in 1..Len(list) :
              list[i] = 1 \/ \E j \in 1..(i - 1) : list[j] = list[i] - 1}

\* one caller, the configured list names a key twice
InitDup ==
    /\ \E list \in DuplicateLists : ConstructedFrom(list)
    /\ budget = [callers |-> 1, calls |-> DupMaxCalls, ticks |-> DupMaxTicks]

SpecDup == InitDup /\ [][Next]_vars

\* startCleanupTask returned before setInterval (as index.ts does in a Worker):
\* callers run concurrently and nothing but getAvailableKeys lifts a block
InitLazy ==
    /\ \E n \in 1..LazyMaxKeys :
          /\ keys = [i \in 1..n |-> i]
          /\ keyMetrics = [k \in 1..n |-> InitialMetrics]
          /\ hist = InitialHistory(n)
    /\ currentIndex = 0
    /\ now = 1000
    /\ ticks = 0
    /\ nextCleanup = Undefined
    /\ inv = [p \in Callers |-> IdleLocals]
    /\ outcome = NoOutcome
    /\ calls = 0
    /\ probe = NoProbe
    /\ budget = [callers |-> NumCallers, calls |-> LazyMaxCalls, ticks |-> LazyMaxTicks]

NextLazy ==
    \/ \E p \in Callers : Start(p)
    \/ \E p \in Callers : WorkSucceeds(p)
    \/ \E p \in Callers : WorkFails(p)
    \/ \E p \in Callers : Wake(p)
    \/ GetStatus
    \/ Tick

SpecLazy == InitLazy /\ [][NextLazy]_vars

\* A request that stays in flight for most of a minute: the clock moves
\* either to the next sleep's end or to two base delays before a block ends,
\* so that a sleep of executeWithRetry begins before the block's end and ends
\* after it.  There is no cleanup task.
InitLate ==
    /\ \E n \in 1..LateMaxKeys :
          /\ keys = [i \in 1..n |-> i]
          /\ keyMetrics = [k \in 1..n |-> InitialMetrics]
          /\ hist = InitialHistory(n)
    /\ currentIndex = 0
    /\ now = 1000
    /\ ticks = 0
    /\ nextCleanup = Undefined
    /\ inv = [p \in Callers |-> IdleLocals]
    /\ outcome = NoOutcome
    /\ calls = 0
    /\ probe = NoProbe
    /\ budget = [callers |-> NumCallers, calls |-> LateMaxCalls, ticks |-> LateMaxTicks]

NextTimer ==
    /\ ticks < budget.ticks
    /\ Timers # {}
    /\ \A d \in Timers : d > now
    /\ now' = CHOOSE t \in Timers : \A d \in Timers : t <= d
    /\ ticks' = ticks + 1
    /\ UNCHANGED <<keys, keyMetrics, currentIndex, nextCleanup, inv, outcome, calls, budget, probe, hist>>

Elapse ==
    /\ ticks < budget.ticks
    /\ \A d \in Timers : d > now
    /\ \E k \in {c \in KeySet : keyMetrics[c].isBlocked} :
          LET t == keyMetrics[k].blockUntil - 2 * BackoffBaseMs
          IN  /\ t > now
              /\ \A d \in Timers : t <= d
              /\ now' = t
    /\ ticks' = ticks + 1
    /\ UNCHANGED <<keys, keyMetrics, currentIndex, nextCleanup, inv, outcome, calls, budget, probe, hist>>

NextLate ==
    \/ \E p \in Callers : Start(p)
    \/ \E p \in Callers : WorkSucceeds(p)
    \/ \E p \in Callers : WorkFails(p)
    \/ \E p \in Callers : Wake(p)
    \/ NextTimer
    \/ Elapse

SpecLate == InitLate /\ [][NextLate]_vars

\* The event loop: a request in flight settles, a timer that is due fires,
\* and the clock reaches the next timer.  Nothing else moves the clock, so no
\* block ends unless an invocation is asleep beyond it.
InitLive ==
    /\ \E n \in 1..LiveMaxKeys :
          /\ keys = [i \in 1..n |-> i]
          /\ keyMetrics = [k \in 1..n |-> InitialMetrics]
          /\ hist = InitialHistory(n)
    /\ currentIndex = 0
    /\ now = 1000
    /\ ticks = 0
    /\ nextCleanup = Undefined
    /\ inv = [p \in Callers |-> IdleLocals]
    /\ outcome = NoOutcome
    /\ calls = 0
    /\ probe = NoProbe
    /\ budget = [callers |-> NumCallers, calls |-> LiveMaxCalls, ticks |-> 0]

TimerDue ==
    /\ Timers # {}
    /\ \A d \in Timers : d > now
    /\ now' = CHOOSE t \in Timers : \A d \in Timers : t <= d
    /\ UNCHANGED <<keys, keyMetrics, currentIndex, ticks, nextCleanup, inv, outcome, calls, budget, probe, hist>>

\* the request of p settles, one way or the other
Settles(p) == WorkSucceeds(p) \/ WorkFails(p)

\* WF_vars(Wake(p)) written out: Wake(p) is enabled exactly when p sleeps and
\* its timer is due, and every Wake(p) step changes inv[p]
WakeFair(p) ==
    \/ []<>~(inv[p].pc = "sleep" /\ now >= inv[p].wakeAt)
    \/ []<><<Wake(p)>>_vars

NextLive ==
    \/ \E p \in Callers : Start(p)
    \/ \E p \in Callers : WorkSucceeds(p)
    \/ \E p \in Callers : WorkFails(p)
    \/ \E p \in Callers : Wake(p)
    \/ TimerDue

SpecLive ==
    /\ InitLive
    /\ [][NextLive]_vars
    /\ WF_vars(TimerDue)
    /\ \A p \in Callers : WF_vars(Settles(p)) /\ WakeFair(p)

(* ------------------- methods applied on their own ---------------------- *)
\* The methods that are functions of their arguments are applied to inputs
\* drawn from bounded sets; the manager itself stands still meanwhile.
Strings(chars, n) == UNION {[1..k -> chars] : k \in 0..n}

\* environments: GEMINI_API_KEYS absent or a string of up to MaxEnvLen
\* characters, and the first MaxLegacy legacy variables absent, '' or a key
EnvChars == {"a", "b", ",", " "}
LegacyValues == {Absent, Var(<<>>), Var(<<"a", " ">>)}
EnvInputs ==
    {[GEMINI_API_KEYS |-> v,
      GEMINI_API_KEY  |-> [i \in 1..LegacySlots |-> IF i <= MaxLegacy THEN l[i] ELSE Absent]] :
        v \in {Absent} \cup {Var(x) : x \in Strings(EnvChars, MaxEnvLen)},
        l \in [1..MaxLegacy -> LegacyValues]}

\* keys: non-empty strings of letters, short strings with the characters the
\* masks are written with, and two strings shaped like a mask
KeyInputs ==
    (Strings({"a", "b"}, MaxKeyLen) \cup Strings({"a", "*", "."}, MaxMarkedLen)
        \cup {<<"a", "a", "a", "a", "b", "b", "b", "b", ".", ".", ".", "a", "b", "a", "b">>,
               <<"a", "b", "b", "a", "*", "*", "*", "b", "a", "a", "b">>})
      \ {<<>>}

\* a key's metrics and the time of the call: any errorCount and usageCount,
\* not blocked or blocked until a minute from then
MetricsInputs ==
    {[metrics |-> [usageCount |-> u, lastUsed |-> IF u = 0 THEN Epoch ELSE 1000,
                   isBlocked |-> b, blockUntil |-> IF b THEN t + blockDurationMs ELSE Undefined,
                   errorCount |-> e],
      t |-> t] :
        u \in 0..1, b \in BOOLEAN, e \in 0..MaxErrorInput,
        t \in {1000 * i : i \in 1..MaxTimeInput}}

\* error messages: what the Gemini API and the callers reject with, in
\* either case, with up to MaxMessagePad characters on each side
MessageBodies ==
    {<<"4", "2", "9">>,
     <<"R", "a", "t", "e", " ", "l", "i", "m", "i", "t">>,
     <<"R", "A", "T", "E", " ", "L", "I", "M", "I", "T", " ", "E", "X", "C", "E", "E", "D", "E", "D">>,
     <<"r", "a", "t", "e", "-", "l", "i", "m", "i", "t", "e", "d">>,
     <<"Q", "u", "o", "t", "a">>,
     <<"q", "u", "o", "t", "a", " ", "e", "x", "c", "e", "e", "d", "e", "d">>,
     <<"Q", "u", "o", "t", "a", " ", "e", "x", "c", "e", "e", "d", "e", "d", " ", "f", "o", "r", " ", "q", "u", "o", "t", "a", " ", "m", "e", "t", "r", "i", "c">>,
     <<"Q", "U", "O", "T", "A", " ", "E", "X", "C", "E", "E", "D", "E", "D">>,
     <<"T", "o", "o", " ", "M", "a", "n", "y", " ", "R", "e", "q", "u", "e", "s", "t", "s">>,
     <<"t", "o", "o", " ", "m", "a", "n", "y", " ", " ", "r", "e", "q", "u", "e", "s", "t", "s">>,
     <<"R", "e", "s", "o", "u", "r", "c", "e", " ", "h", "a", "s", " ", "b", "e", "e", "n", " ", "e", "x", "h", "a", "u", "s", "t", "e", "d">>,
     <<"4", "2", " ", "9">>} \cup
    {ServerError, TooManyRequests, PoolExhaustedMessage, <<>>}
MessageInputs ==
    {pre \o body \o suf : pre \in Strings({"x", " "}, MaxMessagePad),
                          body \in MessageBodies,
                          suf \in Strings({"x", " "}, MaxMessagePad)}

InitPure ==
    /\ keys = <<1>>
    /\ keyMetrics = [k \in {1} |-> InitialMetrics]
    /\ currentIndex = 0
    /\ now = 1000
    /\ ticks = 0
    /\ nextCleanup = Undefined
    /\ inv = [p \in Callers |-> IdleLocals]
    /\ outcome = NoOutcome
    /\ calls = 0
    /\ hist = InitialHistory(1)
    /\ budget = [callers |-> 0, calls |-> 0, ticks |-> 0]
    /\ \/ \E e \in EnvInputs : probe = [kind |-> "env", input |-> e, done |-> FALSE]
       \/ \E k \in KeyInputs : probe = [kind |-> "key", input |-> k, done |-> FALSE]
       \/ \E x \in MetricsInputs : probe = [kind |-> "metrics", input |-> x, done |-> FALSE]
       \/ \E s \in MessageInputs : probe = [kind |-> "message", input |-> s, done |-> FALSE]

\* new GeminiKeyManager(env), of either file
Construct ==
    /\ probe.kind = "env"
    /\ ~probe.done
    /\ probe' = [kind |-> "env", input |-> probe.input, done |-> TRUE,
                  service |-> initializeKeys(probe.input),
                  index |-> IndexInitializeKeys(probe.input)]
    /\ UNCHANGED <<keys, keyMetrics, currentIndex, now, ticks, nextCleanup, inv, outcome, calls, budget, hist>>

\* this.maskKey(key), of either file
Mask ==
    /\ probe.kind = "key"
    /\ ~probe.done
    /\ probe' = [kind |-> "key", input |-> probe.input, done |-> TRUE,
                  service |-> maskKey(probe.input),
                  index |-> IndexMaskKey(probe.input)]
    /\ UNCHANGED <<keys, keyMetrics, currentIndex, now, ticks, nextCleanup, inv, outcome, calls, budget, hist>>

\* this.markKeyError(apiKey) and this.markKeyAsRateLimited(apiKey) on a key
\* with these metrics, of either file
Mark ==
    /\ probe.kind = "metrics"
    /\ ~probe.done
    /\ probe' = [kind |-> "metrics", input |-> probe.input, done |-> TRUE,
                  service |-> [errored |-> Errored(probe.input.metrics, probe.input.t),
                               rateLimited |-> RateLimited(probe.input.metrics, probe.input.t)],
                  index |-> [errored |-> IndexErrored(probe.input.metrics, probe.input.t),
                             rateLimited |-> RateLimited(probe.input.metrics, probe.input.t)]]
    /\ UNCHANGED <<keys, keyMetrics, currentIndex, now, ticks, nextCleanup, inv, outcome, calls, budget, hist>>

\* this.isRateLimitError(error), of either file
Classify ==
    /\ probe.kind = "message"
    /\ ~probe.done
    /\ probe' = [kind |-> "message", input |-> probe.input, done |-> TRUE,
                  service |-> isRateLimitError(probe.input),
                  index |-> IndexIsRateLimitError(probe.input)]
    /\ UNCHANGED <<keys, keyMetrics, currentIndex, now, ticks, nextCleanup, inv, outcome, calls, budget, hist>>

NextPure ==
    \/ Construct
    \/ Mask
    \/ Mark
    \/ Classify

SpecPure == InitPure /\ [][NextPure]_vars

(* ------------------------------- claims -------------------------------- *)
Sum(f) ==
    LET RECURSIVE Add(_)
        Add(S) == IF S = {} THEN 0 ELSE LET x == CHOOSE y \in S : TRUE IN f[x] + Add(S \ {x})
    IN  Add(DOMAIN f)

\* C1: getNextKey never returns a key that, as the call began, was blocked with
\* blockUntil still in the future; the key it returns is a member of the list
\* getAvailableKeys computed in that call.
C1_NeverReturnsBlockedKey ==
    hist.sel.key # NoKey => ~hist.sel.wasBlocked /\ hist.sel.inAvail

\* C1 witness: getNextKey returned a key while another key was blocked, with
\* another invocation in flight.
C1_Witness ==
    /\ hist.sel.key # NoKey
    /\ hist.sel.skipped
    /\ \A p \in Callers : inv[p].pc = "work"

\* C2: a failed attempt's failure is recorded on the key its apiCall was given.
C2_FailureRecordedOnGivenKey ==
    hist.fail.given # NoKey => hist.fail.marked = hist.fail.given

\* C3: in an invocation that began with at least 2 available keys, the key of
\* an attempt differs from the key of the failed attempt before it.
C3_RetryUsesDifferentKey ==
    \A p \in Callers :
        (/\ inv[p].pc = "work"
         /\ inv[p].log.tried # <<>>
         /\ inv[p].log.entryAvail >= 2)
        => inv[p].apiKey # inv[p].log.tried[Len(inv[p].log.tried)]

\* C4: over the getNextKey calls made since the last recorded failure or
\* unblock (M calls over the N keys that are not blocked), every one of the N
\* keys was selected floor(M/N) or ceil(M/N) times.
C4_RoundRobinFair ==
    LET open == {k \in KeySet : ~keyMetrics[k].isBlocked}
        N == Cardinality(open)
        M == Sum(hist.rr)
    IN  N > 0 => \A k \in open :
                    \/ hist.rr[k] = M \div N
                    \/ hist.rr[k] = (M + N - 1) \div N

\* C4 witness: 3 calls over 2 available keys, in a window that began after a
\* failure (so not from the initial cursor).
C4_Witness ==
    /\ hist.everFailed
    /\ Cardinality({k \in KeySet : ~keyMetrics[k].isBlocked}) = 2
    /\ Sum(hist.rr) = 3

\* C5: while no failure has been recorded on a fresh pool of N keys, the i-th
\* getNextKey call returns the key at position (i-1) mod N of the configured order.
C5_FreshPoolOrder ==
    (~hist.everFailed /\ hist.nSel > 0)
        => hist.sel.key = keys[((hist.nSel - 1) % Len(keys)) + 1]

\* C5 witness: pool [k1, k2], the fourth call returned k2.
C5_Witness ==
    /\ ~hist.everFailed
    /\ Len(keys) = 2
    /\ hist.nSel = 4
    /\ hist.sel.key = keys[2]

\* C6: a key marked rate-limited at t (no further failure recorded on it) is
\* in no getAvailableKeys result computed before t + 60s, and the first
\* getAvailableKeys call at or after t + 60s returns it, with isBlocked false,
\* errorCount 0 and blockUntil cleared.
C6_Quarantine ==
    \A k \in KeySet : hist.q[k].phase \notin {"leaked", "stuck"}

\* C6 witness: a key sat out a getAvailableKeys call during its 60s and was
\* then released.
C6_Witness ==
    \E k \in KeySet : hist.q[k].phase = "released" /\ hist.q[k].early

\* C7: counting the generic errors recorded on a key since it was unblocked
\* with errorCount 0 (no success, rate limit or unblock in between): after 1..4
\* records it is not blocked and getAvailableKeys returns it; at the 5th it is blocked.
C7_ErrorThreshold ==
    \A k \in KeySet :
        /\ hist.streak[k] \in 1..4 =>
              /\ ~keyMetrics[k].isBlocked
              /\ k \in Range(getAvailableKeys(Manager, now).ret)
        /\ hist.streak[k] >= 5 =>
              /\ keyMetrics[k].isBlocked
              /\ keyMetrics[k].blockUntil # Undefined

\* C7 witness: the 5th record in a row.
C7_Witness ==
    \E k \in KeySet : hist.streak[k] = 5

\* C8: markKeySuccess sets errorCount to 0 and leaves isBlocked and blockUntil
\* as they were.
C8_SuccessResets ==
    hist.succ.key # NoKey =>
        /\ hist.succ.errorAfter = 0
        /\ hist.succ.blockedAfter = hist.succ.blockedBefore
        /\ hist.succ.untilAfter = hist.succ.untilBefore

\* C8 witness: a success recorded on a blocked key with errors.
C8_Witness ==
    /\ hist.succ.key # NoKey
    /\ hist.succ.errorBefore > 0
    /\ hist.succ.blockedBefore

\* C9: with a pool of 2 keys A and B, both available at entry, an invocation
\* whose apiCall failed once, on A with a generic error, and then resolved on B
\* returns B's result,
\* leaves A's errorCount one above its value at entry and B's errorCount 0.
C9_RetrySuccess ==
    (/\ outcome.status = 200
     /\ Len(keys) = 2
     /\ outcome.log.entryAvail = 2
     /\ Len(outcome.log.tried) = 1
     /\ outcome.log.generic = <<TRUE>>
     /\ outcome.result # outcome.log.tried[1])
    => /\ outcome.code = "OK"
       /\ outcome.log.triedError = outcome.log.entryErrors[outcome.log.tried[1]] + 1
       /\ outcome.log.resultError = 0

\* C10: an invocation entered while every key is blocked with blockUntil in
\* the future ends at once with status 429, code ALL_KEYS_EXHAUSTED, no apiCall,
\* no sleep, and the metrics and the cursor as they were.
C10_ExhaustedAtEntry ==
    /\ \A p \in Callers : inv[p].pc # "idle" => ~inv[p].log.entryBlocked
    /\ outcome.log.entryBlocked =>
          /\ outcome.status = 429
          /\ outcome.code = "ALL_KEYS_EXHAUSTED"
          /\ outcome.log.works = 0
          /\ outcome.log.sleeps = 0
          /\ outcome.log.untouched

\* C10 witness: such an invocation ended, on a pool of 2 keys.
C10_Witness ==
    /\ outcome.log.entryBlocked
    /\ outcome.status = 429
    /\ Len(keys) = 2

\* C11: an invocation calls apiCall at most min(3, keys available at entry)
\* times; one that began with 5 keys available and whose every apiCall failed
\* called it exactly 3 times.
C11_AttemptCap ==
    /\ \A p \in Callers : inv[p].log.works <= Min(3, inv[p].log.entryAvail)
    /\ outcome.log.works <= Min(3, outcome.log.entryAvail)
    /\ (outcome.status \in {429, 500} /\ outcome.log.entryAvail = 5)
          => outcome.log.works = 3

\* C11 witness: an invocation over 5 available keys ended after 3 failed calls,
\* rate-limit and generic errors among them.
C11_Witness ==
    /\ outcome.status = 500
    /\ outcome.log.entryAvail = 5
    /\ outcome.log.works = 3
    /\ TRUE \in Range(outcome.log.generic)
    /\ FALSE \in Range(outcome.log.generic)

\* C12: on a pool of one key, an invocation started less than 60s after a
\* rate-limit failure was recorded ends with status 429, code
\* ALL_KEYS_EXHAUSTED, and never calls apiCall.
C12_SingleKeyBlocked ==
    /\ \A p \in Callers :
          (Len(keys) = 1 /\ inv[p].pc # "idle") => ~inv[p].log.entryQuarantined
    /\ (Len(keys) = 1 /\ outcome.log.entryQuarantined) =>
          /\ outcome.status = 429
          /\ outcome.code = "ALL_KEYS_EXHAUSTED"
          /\ outcome.log.works = 0

\* C12 witness: such an invocation, started after time had passed and while
\* another one was still awaiting its apiCall on the blocked key.
C12_Witness ==
    /\ Len(keys) = 1
    /\ outcome.log.entryQuarantined
    /\ outcome.status = 429
    /\ now > hist.rlAt
    /\ \E p \in Callers : inv[p].pc = "work"

\* C13: an invocation ends with the result of an apiCall that resolved, with
\* ApiError 429 ALL_KEYS_EXHAUSTED or with ApiError 500 API_CALL_FAILED, and
\* never with the error apiCall rejected with; after failed attempts it is the
\* 429 when getAvailableKeys() is empty at that moment and the 500 otherwise.
C13_ThreeOutcomes ==
    /\ outcome.status \in {0, 200, 429, 500}
    /\ outcome.message \notin WorkErrors
    /\ outcome.status = 200 =>
          /\ outcome.code = "OK"
          /\ outcome.result \in KeySet
          /\ outcome.log.works = Len(outcome.log.tried) + 1
    /\ outcome.status = 429 =>
          /\ outcome.code = "ALL_KEYS_EXHAUSTED"
          /\ outcome.log.finalAvail = 0
    /\ outcome.status = 500 =>
          /\ outcome.code = "API_CALL_FAILED"
          /\ outcome.log.finalAvail > 0
          /\ outcome.log.tried # <<>>

\* C13 witness: after failed attempts, the 429 (every key blocked by then).
C13_Witness ==
    /\ outcome.status = 429
    /\ outcome.log.tried # <<>>
    /\ outcome.log.entryAvail = 2

\* C14: when getNextKey throws inside the loop because every key is blocked,
\* the invocation ends there with ApiError 429 ALL_KEYS_EXHAUSTED: it does not
\* sleep, makes no further attempt, and ends neither with the 500 nor with a result.
C14_PoolExhaustedPropagates ==
    /\ \A p \in Callers : inv[p].pc # "idle" => ~inv[p].log.poolThrew
    /\ outcome.log.poolThrew =>
          /\ outcome.status = 429
          /\ outcome.code = "ALL_KEYS_EXHAUSTED"

\* C15: the usageCounts add up to the number of getNextKey calls that returned
\* a key; the last such call left the cursor one step past the position it
\* took; the last failure recorded raised one key's errorCount, by one.
\* (position is 1-based, the cursor 0-based.)
C15_NoLostUpdates ==
    /\ Sum([k \in KeySet |-> keyMetrics[k].usageCount]) = hist.nSel
    /\ hist.nSel > 0 => hist.step.cursor = hist.step.position % hist.step.length
    /\ hist.fail.marked # NoKey => hist.fail.changed = 1 /\ hist.fail.by = 1

\* C15 witness: both callers hold a key, a failure has been recorded, and the
\* last selection wrapped the cursor around.
C15_Witness ==
    /\ \A p \in Callers : inv[p].pc = "work"
    /\ hist.fail.marked # NoKey
    /\ hist.nSel >= 3
    /\ hist.step.cursor = 0
    /\ hist.step.length = 2

\* the entries of a comma-separated value: its maximal comma-free stretches,
\* each without the whitespace around it, the empty ones left out
Entries(v) ==
    LET s == v.value
        commas == {i \in 1..Len(s) : s[i] = ","}
        cut(j) == IF j = 0 THEN 0
                  ELSE IF j > Cardinality(commas) THEN Len(s) + 1
                  ELSE CHOOSE i \in commas : Cardinality({c \in commas : c < i}) = j - 1
        core(a, b) ==
            LET ink == {i \in a..b : s[i] \notin Whitespace}
            IN  IF ink = {} THEN <<>>
                ELSE SubSeq(s, CHOOSE i \in ink : \A o \in ink : i <= o,
                               CHOOSE i \in ink : \A o \in ink : i >= o)
        all == [j \in 1..(Cardinality(commas) + 1) |-> core(cut(j - 1) + 1, cut(j) - 1)]
    IN  IF ~v.set THEN <<>> ELSE SelectSeq(all, LAMBDA e : e # <<>>)

\* C16: with no legacy variable set, constructing either manager from an
\* environment whose GEMINI_API_KEYS has no entry (absent, '', or only commas
\* and whitespace) throws; otherwise the pool is the entries in order, each
\* with usageCount 0, errorCount 0 and isBlocked false.
C16_FailsClosed ==
    (/\ probe.kind = "env"
     /\ probe.done
     /\ \A i \in 1..LegacySlots : ~Truthy(probe.input.GEMINI_API_KEY[i]))
    => LET entries == Entries(probe.input.GEMINI_API_KEYS)
       IN  \A built \in {probe.service, probe.index} :
              IF entries = <<>>
              THEN built.thrown /\ built.keys = <<>>
              ELSE /\ ~built.thrown
                   /\ built.keys = entries
                   /\ DOMAIN built.keyMetrics = Range(entries)
                   /\ \A k \in Range(entries) :
                         /\ built.keyMetrics[k].usageCount = 0
                         /\ built.keyMetrics[k].errorCount = 0
                         /\ ~built.keyMetrics[k].isBlocked

\* C17: what getStatus() returns.  Before any call on a pool of N keys:
\* totalKeys = N, availableKeys = N, blockedKeys = 0.  In every state:
\* totalKeys = availableKeys + blockedKeys, keyStats has totalKeys entries, and
\* blockedKeys is the number of keyStats entries with isBlocked true.
C17_StatusCounts ==
    LET s == getStatus(Manager, now).ret
    IN  /\ calls = 0 =>
              /\ s.totalKeys = Len(keys)
              /\ s.availableKeys = Len(keys)
              /\ s.blockedKeys = 0
        /\ s.totalKeys = s.availableKeys + s.blockedKeys
        /\ Len(s.keyStats) = s.totalKeys
        /\ s.blockedKeys = Cardinality({i \in 1..Len(s.keyStats) : s.keyStats[i].isBlocked})

\* C18: getStatus() changes nothing: called in any state, also one where a
\* blocked key's blockUntil has passed, it leaves every key's usageCount,
\* lastUsed, errorCount, isBlocked and blockUntil, and the cursor, as they were.
C18_StatusIsPure ==
    LET s == getStatus(Manager, now)
    IN  /\ s.m.keyMetrics = keyMetrics
        /\ s.m.currentIndex = currentIndex

\* C19 as claimed: for every key, of any length, what maskKey makes of it (the
\* key field of getStatus) differs from the key and does not contain it.
C19_MaskHidesEveryKey ==
    (probe.kind = "key" /\ probe.done) =>
        \A masked \in {probe.service, probe.index} :
            /\ masked # probe.input
            /\ ~includes(masked, probe.input)

\* C19 amended: the same for every key that has no '*' and no '.' in it.
C19_MaskHidesKey ==
    (/\ probe.kind = "key"
     /\ probe.done
     /\ \A i \in 1..Len(probe.input) : probe.input[i] \notin {"*", "."})
    => \A masked \in {probe.service, probe.index} :
            /\ masked # probe.input
            /\ ~includes(masked, probe.input)

\* C19 witness: a key of 13 letters, of which the mask shows 12; and the two
\* files mask it differently.
C19_Witness ==
    /\ probe.kind = "key"
    /\ probe.done
    /\ Len(probe.input) = 13
    /\ \A i \in 1..Len(probe.input) : probe.input[i] \notin {"*", "."}
    /\ Len(probe.service) = 15
    /\ probe.service # probe.index

\* C20: in both files, when markKeyError blocks a key at t its blockUntil is
\* t + 120s, and when markKeyAsRateLimited blocks it its blockUntil is t + 60s.
C20_ErrorBlockIsLonger ==
    (probe.kind = "metrics" /\ probe.done) =>
        \A marked \in {probe.service, probe.index} :
            /\ marked.rateLimited.isBlocked
            /\ marked.rateLimited.blockUntil = probe.input.t + 60000
            /\ marked.errored.errorCount >= 5 =>
                  /\ marked.errored.isBlocked
                  /\ marked.errored.blockUntil = probe.input.t + 120000

\* C21: for every key, isBlocked is true exactly when blockUntil is set.
C21_BlockedIffDated ==
    \A k \in KeySet : keyMetrics[k].isBlocked <=> keyMetrics[k].blockUntil # Undefined

\* C21 witness: one key blocked with its date, another released by a
\* getAvailableKeys call after its block, with neither flag nor date.
C21_Witness ==
    \E k, r \in KeySet :
        /\ keyMetrics[k].isBlocked
        /\ keyMetrics[k].blockUntil > now
        /\ hist.q[r].phase = "released"
        /\ ~keyMetrics[r].isBlocked

\* C22: with no cleanup task, once a blocked key's blockUntil has passed, the
\* next getNextKey, executeWithRetry or getStatus call counts the key as
\* available and leaves it unblocked; and a getAvailableKeys call made at or
\* after the end of a rate-limit block never left the key out.
C22_ReclaimedOnNextUse ==
    /\ nextCleanup = Undefined
    /\ \A k \in KeySet : hist.q[k].phase # "stuck"
    /\ \A k \in KeySet :
          (keyMetrics[k].isBlocked /\ now >= keyMetrics[k].blockUntil) =>
              LET g == getNextKey(Manager, now)
                  s == getStatus(Manager, now)
                  e == Enter(Manager, now)
              IN  /\ ~g.thrown
                  /\ ~g.m.keyMetrics[k].isBlocked
                  /\ s.ret.availableKeys >= 1
                  /\ ~s.ret.keyStats[k].isBlocked
                  /\ e.loc.pc = "work"
                  /\ e.loc.log.entryAvail >= 1
                  /\ ~e.m.keyMetrics[k].isBlocked

\* C22 witness: on a pool of one key, an invocation ended with the 429 while
\* the key was blocked, and a later one was given the key after a call had
\* released it.
C22_Witness ==
    /\ nextCleanup = Undefined
    /\ Len(keys) = 1
    /\ hist.q[1].phase = "released"
    /\ outcome.status = 429
    /\ outcome.log.entryBlocked
    /\ \E p \in Callers : inv[p].pc = "work" /\ inv[p].apiKey = 1

\* C23: the two copies of the manager recognise the same rate-limit markers:
\* every error message is classified alike by geminiKeyManager.ts and by the
\* copy in index.ts.
C23_SameMarkers ==
    (probe.kind = "message" /\ probe.done) => probe.index = probe.service

\* C24: the attempt count carried by the 500 failure is the number of times
\* the invocation called its work function.
C24_CountsWorkInvocations ==
    outcome.status = 500 => outcome.attempts = outcome.log.works

\* C25 as stated: in the attempt that succeeded, the selection raised the used
\* key's usageCount by 1, left its blocked flag as it was and changed no
\* other key's metrics.
C25_TouchesOnlyUsedKey ==
    outcome.status = 200 =>
        /\ outcome.log.selUsage = 1
        /\ ~outcome.log.selUnblocked
        /\ outcome.log.selOthers = 0

\* C25 amended: in the attempt that succeeded, the selection raised the used
\* key's usageCount by 1 and changed no other key except to unblock those
\* whose blockUntil had passed; the step in which the work resolves ends the
\* invocation with the work's result, selects nothing, and changes nothing
\* but the used key's errorCount, which becomes 0.
C25_SuccessFrame ==
    /\ [](outcome.status = 200 =>
            /\ outcome.log.selUsage = 1
            /\ outcome.log.selLive = 0)
    /\ [][\A p \in Callers :
            (inv[p].pc = "work" /\ inv'[p].pc = "idle" /\ outcome'.status = 200) =>
                /\ outcome'.result = inv[p].apiKey
                /\ outcome'.log.works = inv[p].log.works
                /\ outcome'.log.sleeps = inv[p].log.sleeps
                /\ currentIndex' = currentIndex
                /\ keyMetrics' = [keyMetrics EXCEPT ![inv[p].apiKey].errorCount = 0]]_vars

\* C25 witness: an invocation succeeded at its third attempt, whose selection
\* unblocked another key, and the key it used is blocked (by a failure
\* recorded meanwhile) with errorCount 0.
C25_Witness ==
    /\ outcome.status = 200
    /\ outcome.log.works = 3
    /\ outcome.log.selOthers > 0
    /\ keyMetrics[outcome.result].isBlocked
    /\ keyMetrics[outcome.result].errorCount = 0

\* C26: a sleep begins only after a failed attempt a that is not the last,
\* never when the work resolved, and lasts min(1000 * 2^(a-1), 5000) ms: the
\* next selection is not made before it is over; an invocation sleeps at
\* most twice and 3000 ms in all.
C26_BackoffSchedule ==
    /\ [](/\ outcome.log.sleeps <= 2
          /\ outcome.log.waited <= 3000
          /\ \A p \in Callers : inv[p].log.sleeps <= 2 /\ inv[p].log.waited <= 3000)
    /\ [][\A p \in Callers :
            /\ inv'[p].log.sleeps # inv[p].log.sleeps =>
                  \/ inv'[p].pc = "idle"
                  \/ /\ inv'[p].pc = "sleep"
                     /\ inv[p].pc \in {"work", "sleep"}
                     /\ inv'[p].attempt < inv'[p].maxAttempts
                     /\ inv'[p].wakeAt = now + Min(1000 * 2^(inv'[p].attempt - 1), 5000)
                     /\ inv'[p].log.waited = inv[p].log.waited + (inv'[p].wakeAt - now)
            /\ (inv[p].pc = "sleep" /\ inv'[p] # inv[p]) => now >= inv[p].wakeAt
            /\ (inv[p].pc = "work" /\ inv'[p].pc = "idle") => outcome'.log.sleeps = inv[p].log.sleeps]_vars

\* C26 witness: an invocation failed three times, slept 1000 ms and then
\* 2000 ms, and ended with the 500.
C26_Witness ==
    /\ outcome.status = 500
    /\ outcome.log.works = 3
    /\ outcome.log.sleeps = 2
    /\ outcome.log.waited = 3000

\* C27: when requests settle and timers fire, every invocation that has begun
\* ends, having made at most three attempts and called its work at most three
\* times; no step of it waits for a key to be unblocked.
C27_Terminates ==
    /\ [](\A p \in Callers : inv[p].attempt <= 3 /\ inv[p].log.works <= 3)
    /\ \A p \in Callers : (inv[p].pc # "idle") ~> (inv[p].pc = "idle")

\* C27 witness: an invocation ended with the 500 after three attempts while
\* the other caller's request was in flight.
C27_Witness ==
    /\ outcome.status = 500
    /\ outcome.log.works = 3
    /\ \E p \in Callers : inv[p].pc = "work"

\* C28: the last penalty recorded (errorCount raised, or the key blocked) fell
\* on the key that the failed work invocation was given; a failure of
\* getNextKey, which was given no key, penalised none.
C28_PenaltyOnlyFromOwnFailure ==
    hist.fail.marked # NoKey =>
        /\ hist.fail.given # NoKey
        /\ hist.fail.marked = hist.fail.given

C30_CursorInRange ==
    LET g == getNextKey(Manager, now)
        L == Len(getAvailableKeys(Manager, now).ret)
    IN  /\ 0 <= currentIndex
        /\ currentIndex < Len(keys)
        /\ g.thrown <=> L = 0
        /\ g.thrown => /\ g.m.currentIndex = currentIndex
                       /\ g.m.keyMetrics = keyMetrics
        /\ ~g.thrown => /\ g.m.currentIndex = (currentIndex + 1) % L
                        /\ g.ret \in KeySet

\* C30 witness: the cursor has wrapped around after a selection from three
\* keys, and later a getNextKey call inside a retry loop threw because every
\* key was blocked.
C30_Witness ==
    /\ Len(keys) = 3
    /\ hist.nSel >= 3
    /\ \A k \in KeySet : keyMetrics[k].isBlocked /\ keyMetrics[k].blockUntil > now
    /\ \E p \in Callers : inv[p].pc = "sleep" /\ inv[p].log.poolThrew

====
